---- MODULE Spec2Model ----
(***************************************************************************)
(* Ownership and error mapping of the rsa_key and certificate wrappers of  *)
(* libcryptoplus (include/cryptopen/pkey/rsa_key.hpp and                    *)
(* include/cryptoplus/x509/certificate.hpp).                                *)
(*                                                                         *)
(* heap  : the library's objects, by address (X509, RSA, EVP_PKEY), each   *)
(*         with the library's own reference count;                         *)
(* cbs   : the bag of boost::shared_ptr control blocks, one per            *)
(*         construction; "use" is shared_ptr's use_count, "live" counts    *)
(*         the wrapper objects that really share the block and "by" names  *)
(*         the constructor (both history, never read by an operation),     *)
(*         "ran" counts the runs of the bound deleter. A block leaves the  *)
(*         bag once its deleter ran and no wrapper shares it;              *)
(* last  : the outcome of a fallible operation that has just returned or   *)
(*         thrown (what was called, what the library or the caller handed  *)
(*         in, which exception left it, what was written), until the       *)
(*         caller goes on;                                                 *)
(* ub    : the first undefined behaviour the run met ("none" before it).   *)
(*         Nothing is modelled after it: every action is disabled, since   *)
(*         any outcome is possible from there;                             *)
(* lent  : addresses that were handed to the take-ownership constructor    *)
(*         while a control block already owned them (history);             *)
(* pem   : the PEM round trip pipeline (given block, loaded certificate,   *)
(*         written block, reloaded certificate).                           *)
(***************************************************************************)
EXTENDS Integers, Sequences, FiniteSets, Bags, TLC

VARIABLES heap, cbs, last, ub, lent, pem

vars == <<heap, cbs, last, ub, lent, pem>>

\* Bounds of the model.
MaxCb == 3
MaxLive == 3
MaxAddr == 2

NULL == 0
Addr == 1..MaxAddr

\* PEM data: certificate bodies and auxiliary trust data.
Bodies == {"b1", "b2"}
NoAux == "none"
AuxData == {NoAux, "t1", "t2"}
AllNames == {"subject", "issuer"}

(***************************************************************************)
(* The library: objects and free functions.                                *)
(***************************************************************************)

FreeObj ==
    [kind |-> "free", refs |-> 0, body |-> "none", aux |-> NoAux,
     pkey |-> NULL, names |-> {}, blind |-> FALSE]

\* X509_new(): an empty certificate, reference count 1, both names allocated,
\* no public key.
X509_new_obj ==
    [kind |-> "X509", refs |-> 1, body |-> "empty", aux |-> NoAux,
     pkey |-> NULL, names |-> AllNames, blind |-> FALSE]

\* A certificate decoded from PEM: body and auxiliary data of the decoder.
X509_obj(c) ==
    [kind |-> "X509", refs |-> 1, body |-> c.body, aux |-> c.aux,
     pkey |-> NULL, names |-> AllNames, blind |-> FALSE]

RSA_new_obj ==
    [kind |-> "RSA", refs |-> 1, body |-> "none", aux |-> NoAux,
     pkey |-> NULL, names |-> {}, blind |-> FALSE]

EVP_PKEY_obj(n) ==
    [kind |-> "EVP_PKEY", refs |-> n, body |-> "none", aux |-> NoAux,
     pkey |-> NULL, names |-> {}, blind |-> FALSE]

\* The addresses not in use.
FreeAddr(h) == {a \in Addr : h[a].kind = "free"}

\* The inner names of the certificate at a: the addresses the accessors return.
X509_get_subject_name(a) == MaxAddr + a
X509_get_issuer_name(a) == 2 * MaxAddr + a
NameOwner(p) == IF p > 2 * MaxAddr THEN p - 2 * MaxAddr ELSE p - MaxAddr
NamePart(p) == IF p > 2 * MaxAddr THEN "issuer" ELSE "subject"

\* The kind of object a free function releases.
FreeKind(fn) ==
    CASE fn = "X509_free" -> "X509"
      [] fn = "RSA_free" -> "RSA"
      [] fn = "EVP_PKEY_free" -> "EVP_PKEY"
      [] OTHER -> "none"

\* One reference of the object at a is given back; at zero it is deallocated,
\* and a certificate gives back its reference to its cached public key.
Unref(h, a) ==
    IF h[a].refs > 1
    THEN [h EXCEPT ![a].refs = @ - 1]
    ELSE LET k == h[a].pkey
             h1 == [h EXCEPT ![a] = FreeObj]
         IN  IF k = NULL THEN h1
             ELSE IF h1[k].refs > 1 THEN [h1 EXCEPT ![k].refs = @ - 1]
             ELSE [h1 EXCEPT ![k] = FreeObj]

\* Whether running deleter fn on p is undefined: a free function on an object
\* already deallocated or of another kind, X509_NAME_free on a name already
\* released. Every free function returns at once on NULL.
DeleterUB(h, fn, p) ==
    CASE p = NULL -> FALSE
      [] fn = "null_deleter" -> FALSE
      [] fn = "X509_NAME_free" ->
            \/ h[NameOwner(p)].kind # "X509"
            \/ NamePart(p) \notin h[NameOwner(p)].names
      [] fn = "X509_free" -> h[p].kind # "X509" \/ h[p].names # AllNames
      [] OTHER -> h[p].kind # FreeKind(fn)

\* The heap after deleter fn ran on p.
RunDeleter(h, fn, p) ==
    CASE p = NULL -> h
      [] fn = "null_deleter" -> h
      [] fn = "X509_NAME_free" ->
            [h EXCEPT ![NameOwner(p)].names = @ \ {NamePart(p)}]
      [] OTHER -> Unref(h, p)

(***************************************************************************)
(* The library: PEM blocks, decoders and encoders.                         *)
(***************************************************************************)

\* Nothing decodable (an empty or damaged source), nothing written.
NoBlock == [kind |-> "none", body |-> "none", aux |-> NoAux]

PlainBlock(b) == [kind |-> "CERTIFICATE", body |-> b, aux |-> NoAux]
TrustedBlock(b, x) == [kind |-> "TRUSTED CERTIFICATE", body |-> b, aux |-> x]

\* The PEM inputs of the round trip.
PemInputs ==
    {PlainBlock(b) : b \in Bodies}
        \cup {TrustedBlock(b, x) : b \in Bodies, x \in AuxData}

\* The PEM inputs the loaders of the wrappers are driven with.
PemSamples == {PlainBlock("b1"), TrustedBlock("b1", "t1")}

\* What a decoder makes of a block: NoCert for NULL. The plain decoders read
\* both block kinds and keep no auxiliary data; the AUX decoders read both
\* and keep what the block carries.
NoCert == [body |-> "none", aux |-> NoAux]

PEM_decode(fn, blk) ==
    IF blk.kind = "none" THEN NoCert
    ELSE IF fn \in {"PEM_read_bio_X509", "PEM_read_X509"}
    THEN [body |-> blk.body, aux |-> NoAux]
    ELSE [body |-> blk.body, aux |-> blk.aux]

\* What an encoder writes for a certificate: the plain encoders leave the
\* auxiliary data out, the AUX encoders write it.
PEM_encode(fn, c) ==
    IF fn \in {"PEM_write_bio_X509", "PEM_write_X509"}
    THEN PlainBlock(c.body)
    ELSE TrustedBlock(c.body, c.aux)

\* The plain loader calling the AUX decoder on a FILE.
from_certificate_decoder_aux(src) ==
    IF src = "bio" THEN "PEM_read_bio_X509" ELSE "PEM_read_X509_AUX"

\* The decoder each loader calls, for a stream ("bio") and for a FILE.
from_certificate_decoder(src) ==
    IF src = "bio" THEN "PEM_read_bio_X509" ELSE "PEM_read_X509"

from_trusted_certificate_decoder(src) ==
    IF src = "bio" THEN "PEM_read_bio_X509_AUX" ELSE "PEM_read_X509_AUX"

\* The encoder each writer calls.
write_certificate_encoder(sink) ==
    IF sink = "bio" THEN "PEM_write_bio_X509" ELSE "PEM_write_X509"

write_trusted_certificate_encoder(sink) ==
    IF sink = "bio" THEN "PEM_write_bio_X509_AUX" ELSE "PEM_write_X509_AUX"

Media == {"bio", "FILE"}

(***************************************************************************)
(* boost::shared_ptr.                                                      *)
(***************************************************************************)

\* shared_ptr(p, d): a new control block, use_count 1.
sp_new(ty, p, d, by) ==
    [ty |-> ty, ptr |-> p, del |-> d, use |-> 1, live |-> 1, ran |-> 0,
     by |-> by]

\* A copy that shares the block without counting itself.
sp_copy_uncounted(cb) == cb

\* The copy constructor: one more owner (an atomic increment of use_count).
sp_copy(cb) == [cb EXCEPT !.use = @ + 1]

\* The destructor: one owner less (an atomic decrement of use_count). The
\* thread whose decrement reaches zero runs the deleter, as a later step.
sp_release(cb) == [cb EXCEPT !.use = @ - 1]

\* A wrapper object sharing the block is made, or destroyed.
Born(cb) == [cb EXCEPT !.live = @ + 1]
Gone(cb) == [cb EXCEPT !.live = @ - 1]

Blocks == BagToSet(cbs)
Put(B, cb) == B (+) SetToBag({cb})
Take(B, cb) == B (-) SetToBag({cb})

RECURSIVE SumLive(_)
SumLive(S) ==
    IF S = {} THEN 0
    ELSE LET cb == CHOOSE x \in S : TRUE
         IN  cb.live * CopiesIn(cb, cbs) + SumLive(S \ {cb})

\* The wrapper objects alive.
TotalLive == SumLive(Blocks)

CanConstruct == BagCardinality(cbs) < MaxCb /\ TotalLive < MaxLive

LiveOf(ty) == {cb \in Blocks : cb.ty = ty /\ cb.live > 0}

\* raw(): the address the wrapper holds.
raw(cb) == cb.ptr

\* operator!= written with operator=='s comparison.
certificate_neq_same(lhs, rhs) == raw(lhs) = raw(rhs)

\* operator== and operator!= of certificate and of rsa_key.
certificate_eq(lhs, rhs) == raw(lhs) = raw(rhs)
certificate_neq(lhs, rhs) == raw(lhs) # raw(rhs)
rsa_key_eq(lhs, rhs) == raw(lhs) = raw(rhs)
rsa_key_neq(lhs, rhs) == raw(lhs) # raw(rhs)

\* The addresses something still points to.
Referenced ==
    {cb.ptr : cb \in Blocks} \cup {NameOwner(cb.ptr) : cb \in LiveOf("name")}
        \cup lent \cup {heap[a].pkey : a \in Addr}

\* What an allocation of the library returns: NULL, or an address not in
\* use. Free addresses nothing points to are interchangeable: the lowest
\* stands for them all.
AllocResults ==
    LET stale == FreeAddr(heap) \cap Referenced
        fresh == FreeAddr(heap) \ Referenced
    IN  {NULL} \cup stale
            \cup {a \in fresh : \A b \in fresh : a <= b}

(***************************************************************************)
(* The error translator and the constructors' checks.                      *)
(***************************************************************************)

\* error::throw_error_if_not(condition): CryptographicError unless it holds.
throw_error_if_not(c) == IF c THEN "none" ELSE "CryptographicError"

\* certificate::certificate(): throw_error_if_not(m_x509).
certificate_default_check(p) == throw_error_if_not(p # NULL)

\* The null check written with the error translator, as in the siblings.
certificate_raw_check_translated(p) == throw_error_if_not(p # NULL)

\* certificate::certificate(X509 *x509): std::invalid_argument on null.
certificate_raw_check(p) == IF p = NULL THEN "InvalidArgument" ELSE "none"

\* The private constructor without its check.
certificate_shared_unchecked(p) == "none"

\* certificate::certificate(boost::shared_ptr<X509>): throw_error_if_not.
certificate_shared_check(p) == throw_error_if_not(p # NULL)

\* rsa_key::rsa_key(): throw_error_if_not(m_rsa).
rsa_key_default_check(p) == throw_error_if_not(p # NULL)

\* rsa_key::rsa_key(boost::shared_ptr<RSA>): throw_error_if_not(m_rsa).
rsa_key_shared_check(p) == throw_error_if_not(p # NULL)

\* pkey::pkey(EVP_PKEY *pkey), the take-ownership constructor of the
\* public-key wrapper: an invalid argument on null, like its siblings.
pkey_raw_check(p) == IF p = NULL THEN "InvalidArgument" ELSE "none"

\* The result of RSA_blinding_on dropped, as disable_blinding drops its own.
enable_blinding_unchecked(ret) == "none"

\* rsa_key::enable_blinding: throw_error_if_not(RSA_blinding_on(...)).
enable_blinding_check(ret) == throw_error_if_not(ret # 0)

\* write_certificate, write_trusted_certificate: throw_error_if_not(PEM_write...).
write_certificate_check(ret) == throw_error_if_not(ret # 0)
write_trusted_certificate_check(ret) == throw_error_if_not(ret # 0)

\* The view's deleter bound where the owner's belongs, and the reverse.
certificate_default_deleter_none == "null_deleter"
subject_deleter_free == "X509_NAME_free"

\* The deleters the constructors bind.
certificate_default_deleter == "X509_free"
certificate_raw_deleter == "X509_free"
from_certificate_deleter == "X509_free"
from_trusted_certificate_deleter == "X509_free"
rsa_key_default_deleter == "RSA_free"
subject_deleter == "null_deleter"
issuer_deleter == "null_deleter"

\* The name each view accessor asks the library for.
subject_name(a) == X509_get_subject_name(a)
issuer_name(a) == X509_get_issuer_name(a)

(***************************************************************************)
(* Outcomes.                                                               *)
(***************************************************************************)

Outcome(op, cause, err, out) ==
    [op |-> op, cause |-> cause, err |-> err, out |-> out]

\* No operation has just ended.
Idle == Outcome("none", "none", "none", NoBlock)

\* An operation may start.
Ready == ub = "none" /\ last = Idle

\* The step that meets undefined behaviour u: the run is not followed further.
Undefined(u) == ub' = u /\ UNCHANGED <<heap, cbs, last, lent, pem>>

\* The wrapper's address no longer holds an object of its kind.
Dangling(cb, kind) == heap[raw(cb)].kind # kind

Cause(p) == IF p = NULL THEN "lib_null" ELSE "none"

\* A constructor that got p for the object obj (heap h before it), checked
\* it with err and bound deleter d: the wrapper exists if nothing was thrown.
\* With a throw the member shared_ptr is destroyed and d runs on p at once
\* (every free function ignores NULL).
Constructed(h, ty, p, d, by, obj, err) ==
    LET h1 == IF p = NULL THEN h ELSE [h EXCEPT ![p] = obj] IN
    IF err = "none"
    THEN /\ CanConstruct
         /\ cbs' = Put(cbs, sp_new(ty, p, d, by))
         /\ heap' = h1
    ELSE /\ cbs' = cbs
         /\ heap' = RunDeleter(h1, d, p)

(***************************************************************************)
(* certificate and rsa_key: construction.                                  *)
(***************************************************************************)

\* certificate::certificate() : m_x509(X509_new(), X509_free)
certificate_default ==
    /\ Ready
    /\ \E p \in AllocResults :
         LET err == certificate_default_check(p) IN
         /\ Constructed(heap, "certificate", p, certificate_default_deleter,
                        "default", X509_new_obj, err)
         /\ last' = Outcome("certificate", Cause(p), err, NoBlock)
    /\ UNCHANGED <<ub, lent, pem>>

\* The objects a caller may hold and hand over: an empty certificate, a
\* decoded one.
CallerObjects == {X509_new_obj, X509_obj([body |-> "b1", aux |-> NoAux])}

\* certificate::certificate(X509 *x509) : m_x509(x509, X509_free), for NULL,
\* for an object of the caller's own (p was free: the caller allocated it)
\* and for an address a control block already owns.
certificate_raw(p) ==
    /\ Ready
    /\ LET err == certificate_raw_check(p)
           owned == p # NULL /\ heap[p].kind = "X509"
       IN  /\ \E obj \in (IF owned THEN {heap[p]} ELSE CallerObjects) :
                Constructed(heap, "certificate", p, certificate_raw_deleter,
                            "raw", obj, err)
           /\ lent' = IF owned /\ err = "none" THEN lent \cup {p} ELSE lent
           /\ last' = Outcome("certificate_raw",
                              IF p = NULL THEN "arg_null" ELSE "none",
                              err, NoBlock)
    /\ UNCHANGED <<ub, pem>>

\* A loader: the decoder fn on the block blk of the source, then the private
\* constructor certificate(boost::shared_ptr<X509>(..., X509_free)).
Loaded(op, fn, d, blk) ==
    LET c == PEM_decode(fn, blk) IN
    \E p \in (IF c = NoCert THEN {NULL} ELSE AllocResults) :
        LET err == certificate_shared_check(p) IN
        /\ Constructed(heap, "certificate", p, d, op, X509_obj(c), err)
        /\ last' = Outcome(op, Cause(p), err, NoBlock)

\* certificate::from_certificate(bio::bio_ptr, ...) and (FILE*, ...)
from_certificate(src) ==
    /\ Ready
    /\ \E blk \in PemSamples \cup {NoBlock} :
         Loaded("from_certificate", from_certificate_decoder(src),
                from_certificate_deleter, blk)
    /\ UNCHANGED <<ub, lent, pem>>

\* certificate::from_trusted_certificate(bio::bio_ptr, ...) and (FILE*, ...)
from_trusted_certificate(src) ==
    /\ Ready
    /\ \E blk \in PemSamples \cup {NoBlock} :
         Loaded("from_trusted_certificate",
                from_trusted_certificate_decoder(src),
                from_trusted_certificate_deleter, blk)
    /\ UNCHANGED <<ub, lent, pem>>

\* rsa_key::rsa_key() : m_rsa(RSA_new(), RSA_free)
rsa_key_default ==
    /\ Ready
    /\ \E p \in AllocResults :
         LET err == rsa_key_default_check(p) IN
         /\ Constructed(heap, "rsa_key", p, rsa_key_default_deleter,
                        "default", RSA_new_obj, err)
         /\ last' = Outcome("rsa_key", Cause(p), err, NoBlock)
    /\ UNCHANGED <<ub, lent, pem>>

\* rsa_key::generate: the private constructor on what RSA_generate_key returns.
generate ==
    /\ Ready
    /\ \E p \in AllocResults :
         LET err == rsa_key_shared_check(p) IN
         /\ Constructed(heap, "rsa_key", p, "RSA_free", "generate",
                        RSA_new_obj, err)
         /\ last' = Outcome("generate", Cause(p), err, NoBlock)
    /\ UNCHANGED <<ub, lent, pem>>

(***************************************************************************)
(* Copy, assignment, destruction (the wrappers' implicit members).         *)
(***************************************************************************)

\* The copy constructor of a wrapper: the member shared_ptr is copied.
Copy(cb) ==
    /\ Ready
    /\ cb \in Blocks /\ cb.live > 0
    /\ TotalLive < MaxLive
    /\ cbs' = Put(Take(cbs, cb), Born(sp_copy(cb)))
    /\ UNCHANGED <<heap, last, ub, lent, pem>>

\* a = b for two wrappers of one type on different blocks: b's block gains
\* an owner, a's block loses one.
Assign(a, b) ==
    /\ Ready
    /\ a \in Blocks /\ b \in Blocks
    /\ a # b \/ CopiesIn(a, cbs) > 1
    /\ a.live > 0 /\ b.live > 0
    /\ a.ty = b.ty
    /\ cbs' = Put(Put(Take(Take(cbs, a), b), Gone(sp_release(a))),
                  Born(sp_copy(b)))
    /\ UNCHANGED <<heap, last, ub, lent, pem>>

\* The destructor of a wrapper, on any thread.
Drop(cb) ==
    /\ Ready
    /\ cb \in Blocks /\ cb.live > 0
    /\ cbs' = Put(Take(cbs, cb), Gone(sp_release(cb)))
    /\ UNCHANGED <<heap, last, ub, lent, pem>>

\* The thread that brought use_count to zero runs the bound deleter; the
\* block is then given back, unless a wrapper still shares it.
Dispose(cb) ==
    /\ Ready
    /\ cb \in Blocks /\ cb.use = 0 /\ cb.ran = 0
    /\ IF DeleterUB(heap, cb.del, cb.ptr)
       THEN Undefined("bad_free")
       ELSE /\ heap' = RunDeleter(heap, cb.del, cb.ptr)
            /\ cbs' = IF cb.live = 0 THEN Take(cbs, cb)
                      ELSE Put(Take(cbs, cb), [cb EXCEPT !.ran = 1])
            /\ UNCHANGED <<last, ub, lent, pem>>

\* The caller goes on after a fallible operation returned or threw.
Resume ==
    /\ ub = "none" /\ last # Idle
    /\ last' = Idle
    /\ UNCHANGED <<heap, cbs, ub, lent, pem>>

(***************************************************************************)
(* certificate: writers, public key, name views.  rsa_key: blinding.       *)
(***************************************************************************)

\* What the library's int-returning calls report: zero for failure.
LibRet == {0, 1}

\* A writer: the encoder fn on the wrapper's object, its result checked.
Written(op, fn, err, ret, cb) ==
    /\ last' = Outcome(op, IF ret = 0 THEN "lib_zero" ELSE "lib_nonzero", err,
                       IF ret = 0 THEN NoBlock
                       ELSE PEM_encode(fn, heap[raw(cb)]))
    /\ UNCHANGED <<heap, cbs, ub, lent, pem>>

\* certificate::write_certificate(bio::bio_ptr) and (FILE*)
write_certificate(cb, sink) ==
    /\ Ready
    /\ cb \in LiveOf("certificate")
    /\ IF Dangling(cb, "X509") THEN Undefined("use_after_free")
       ELSE \E ret \in LibRet :
              Written("write_certificate", write_certificate_encoder(sink),
                      write_certificate_check(ret), ret, cb)

\* certificate::write_trusted_certificate(bio::bio_ptr) and (FILE*)
write_trusted_certificate(cb, sink) ==
    /\ Ready
    /\ cb \in LiveOf("certificate")
    /\ IF Dangling(cb, "X509") THEN Undefined("use_after_free")
       ELSE \E ret \in LibRet :
              Written("write_trusted_certificate",
                      write_trusted_certificate_encoder(sink),
                      write_trusted_certificate_check(ret), ret, cb)

\* What X509_get_pubkey(a) may return: NULL when the certificate carries no
\* key or the key cannot be decoded, else the certificate's key object,
\* decoded and cached on the first call.
X509_get_pubkey_results(a) ==
    IF heap[a].body = "empty" THEN {NULL}
    ELSE IF heap[a].pkey # NULL THEN {heap[a].pkey}
    ELSE AllocResults

\* An accessor that lends the certificate's key and takes no reference.
X509_get0_pubkey_heap(a, k) ==
    IF k = NULL \/ heap[a].pkey = k THEN heap
    ELSE [heap EXCEPT ![k] = EVP_PKEY_obj(1), ![a].pkey = k]

\* The heap after X509_get_pubkey(a) returned k: the certificate keeps its
\* reference, the caller gets one more.
X509_get_pubkey_heap(a, k) ==
    IF k = NULL THEN heap
    ELSE IF heap[a].pkey = k
    THEN [heap EXCEPT ![k].refs = @ + 1]
    ELSE [heap EXCEPT ![k] = EVP_PKEY_obj(2), ![a].pkey = k]

\* certificate::public_key(): pkey::pkey(X509_get_pubkey(m_x509.get()))
public_key(cb) ==
    /\ Ready
    /\ cb \in LiveOf("certificate")
    /\ IF Dangling(cb, "X509") THEN Undefined("use_after_free")
       ELSE /\ \E k \in X509_get_pubkey_results(raw(cb)) :
                 LET h == X509_get_pubkey_heap(raw(cb), k)
                     err == pkey_raw_check(k)
                 IN  /\ Constructed(h, "pkey", k, "EVP_PKEY_free",
                                    "public_key", h[k], err)
                     /\ last' = Outcome("public_key", Cause(k), err, NoBlock)
            /\ UNCHANGED <<ub, lent, pem>>

\* A name view: name(boost::shared_ptr<X509_NAME>(p, d)) on an inner name.
Viewed(by, p, d) ==
    /\ CanConstruct
    /\ cbs' = Put(cbs, sp_new("name", p, d, by))
    /\ UNCHANGED <<heap, last, ub, lent, pem>>

\* certificate::subject()
subject(cb) ==
    /\ Ready
    /\ cb \in LiveOf("certificate")
    /\ IF Dangling(cb, "X509") THEN Undefined("use_after_free")
       ELSE Viewed("subject", subject_name(raw(cb)), subject_deleter)

\* certificate::issuer()
issuer(cb) ==
    /\ Ready
    /\ cb \in LiveOf("certificate")
    /\ IF Dangling(cb, "X509") THEN Undefined("use_after_free")
       ELSE Viewed("issuer", issuer_name(raw(cb)), issuer_deleter)

\* rsa_key::enable_blinding(BN_CTX *ctx)
enable_blinding(cb) ==
    /\ Ready
    /\ cb \in LiveOf("rsa_key")
    /\ \E ret \in LibRet :
         /\ heap' = IF ret = 0 THEN heap
                    ELSE [heap EXCEPT ![raw(cb)].blind = TRUE]
         /\ last' = Outcome("enable_blinding",
                            IF ret = 0 THEN "lib_zero" ELSE "lib_nonzero",
                            enable_blinding_check(ret), NoBlock)
    /\ UNCHANGED <<cbs, ub, lent, pem>>

\* rsa_key::disable_blinding(): RSA_blinding_off, nothing to check.
disable_blinding(cb) ==
    /\ Ready
    /\ cb \in LiveOf("rsa_key")
    /\ heap' = [heap EXCEPT ![raw(cb)].blind = FALSE]
    /\ UNCHANGED <<cbs, last, ub, lent, pem>>

(***************************************************************************)
(* The PEM round trip: a block is loaded, the certificate written, the     *)
(* written block loaded again, each step by either variant and medium.     *)
(***************************************************************************)

NoPem ==
    [stage |-> "idle", given |-> NoBlock, cert |-> NoCert, out |-> NoBlock,
     back |-> NoCert, via |-> <<>>]

Loaders == {"from_certificate", "from_trusted_certificate"}
Writers == {"write_certificate", "write_trusted_certificate"}

\* The decoder the loader f calls on medium m, the encoder the writer f calls.
LoaderDecoder(f, m) ==
    IF f = "from_certificate" THEN from_certificate_decoder(m)
    ELSE from_trusted_certificate_decoder(m)

WriterEncoder(f, m) ==
    IF f = "write_certificate" THEN write_certificate_encoder(m)
    ELSE write_trusted_certificate_encoder(m)

PemLoad(f, m) ==
    /\ pem.stage = "given"
    /\ pem' = [pem EXCEPT !.stage = "loaded",
                          !.cert = PEM_decode(LoaderDecoder(f, m), pem.given),
                          !.via = Append(@, f)]
    /\ UNCHANGED <<heap, cbs, last, ub, lent>>

PemWrite(f, m) ==
    /\ pem.stage = "loaded"
    /\ pem' = [pem EXCEPT !.stage = "written",
                          !.out = PEM_encode(WriterEncoder(f, m), pem.cert),
                          !.via = Append(@, f)]
    /\ UNCHANGED <<heap, cbs, last, ub, lent>>

PemReload(f, m) ==
    /\ pem.stage = "written"
    /\ pem' = [pem EXCEPT !.stage = "reloaded",
                          !.back = PEM_decode(LoaderDecoder(f, m), pem.out),
                          !.via = Append(@, f)]
    /\ UNCHANGED <<heap, cbs, last, ub, lent>>

(***************************************************************************)
(* Specifications.                                                         *)
(***************************************************************************)

Init ==
    /\ heap = [a \in Addr |-> FreeObj]
    /\ cbs = EmptyBag
    /\ last = Idle
    /\ ub = "none"
    /\ lent = {}
    /\ pem = NoPem

\* The addresses a caller that keeps to raw()'s warning may hand over:
\* objects of its own, none that a wrapper lent.
CallerOwned == AllocResults \ {NULL}

\* The addresses raw() lends.
Lent == {raw(cb) : cb \in LiveOf("certificate")}

\* Construction by callers that keep to the ownership contract of raw().
Construct ==
    \/ certificate_default
    \/ rsa_key_default
    \/ generate
    \/ \E p \in {NULL} \cup CallerOwned : certificate_raw(p)
    \/ \E src \in Media : from_certificate(src)
    \/ \E src \in Media : from_trusted_certificate(src)

\* Copies, assignments and destructions of any wrapper, on any thread.
Own ==
    \/ \E cb \in Blocks : Copy(cb)
    \/ \E a, b \in Blocks : Assign(a, b)
    \/ \E cb \in Blocks : Drop(cb)
    \/ \E cb \in Blocks : Dispose(cb)
    \/ Resume

\* The operations on a live wrapper.
Call ==
    \/ \E cb \in Blocks, sink \in Media : write_certificate(cb, sink)
    \/ \E cb \in Blocks, sink \in Media : write_trusted_certificate(cb, sink)
    \/ \E cb \in Blocks : enable_blinding(cb)
    \/ \E cb \in Blocks : disable_blinding(cb)

Key == \E cb \in Blocks : public_key(cb)

View ==
    \/ \E cb \in Blocks : subject(cb)
    \/ \E cb \in Blocks : issuer(cb)

\* The whole program.
Next == Construct \/ Own \/ Call \/ Key \/ View

Spec == Init /\ [][Next]_vars

\* Construction and ownership of both wrappers.
NextOwn == Construct \/ Own

SpecOwn == Init /\ [][NextOwn]_vars

\* Certificates and the public keys taken from them.
NextKey ==
    \/ certificate_default
    \/ \E src \in Media : from_certificate(src)
    \/ Key
    \/ Own

SpecKey == Init /\ [][NextKey]_vars

\* Certificates and the views of their names.
NextView ==
    \/ certificate_default
    \/ \E src \in Media : from_certificate(src)
    \/ View
    \/ Own

SpecView == Init /\ [][NextView]_vars

\* The fallible calls on live wrappers.
NextCall ==
    \/ certificate_default
    \/ \E src \in Media : from_trusted_certificate(src)
    \/ rsa_key_default
    \/ Call
    \/ Own

SpecCall == Init /\ [][NextCall]_vars

\* Callers that also hand a lent address to the take-ownership constructor.
NextAnyRaw ==
    \/ certificate_default
    \/ \E p \in {NULL} \cup CallerOwned \cup Lent : certificate_raw(p)
    \/ \E cb \in Blocks, sink \in Media : write_certificate(cb, sink)
    \/ Own

SpecAnyRaw == Init /\ [][NextAnyRaw]_vars

\* The round trip of every PEM input.
InitPem ==
    /\ heap = [a \in Addr |-> FreeObj]
    /\ cbs = EmptyBag
    /\ last = Idle
    /\ ub = "none"
    /\ lent = {}
    /\ \E blk \in PemInputs :
         pem = [NoPem EXCEPT !.stage = "given", !.given = blk]

NextPem ==
    \/ \E f \in Loaders, m \in Media : PemLoad(f, m)
    \/ \E f \in Writers, m \in Media : PemWrite(f, m)
    \/ \E f \in Loaders, m \in Media : PemReload(f, m)

SpecPem == InitPem /\ [][NextPem]_vars

(***************************************************************************)
(* Properties.                                                             *)
(***************************************************************************)

\* The free function of each owning wrapper type and the object it releases.
OwnerDeleter(ty) == IF ty = "certificate" THEN "X509_free" ELSE "RSA_free"
OwnerKind(ty) == IF ty = "certificate" THEN "X509" ELSE "RSA"
Owners == {cb \in Blocks : cb.ty \in {"certificate", "rsa_key"}}

\* C1: the free function bound at construction (X509_free for a certificate,
\* RSA_free for an rsa_key) runs exactly once on the wrapped address, when the
\* last of the copies sharing it is dropped: use_count counts the live copies,
\* the object is allocated and the deleter has not run while a block exists
\* (a block with no copy left is the one whose deleter is about to run), no
\* free function meets an object already released, and no allocated object
\* is left without its block.
C1_DeleterExactlyOnce ==
    /\ ub = "none"
    /\ \A cb \in Owners :
         /\ cb.del = OwnerDeleter(cb.ty)
         /\ cb.use = cb.live
         /\ cb.ran = 0
         /\ heap[cb.ptr].kind = OwnerKind(cb.ty)
         /\ heap[cb.ptr].refs = 1
         /\ CopiesIn(cb, cbs) = 1
         /\ \A other \in Owners : other.ptr = cb.ptr => other = cb
    /\ \A a \in Addr :
         heap[a].kind \in {"X509", "RSA"} => \E cb \in Owners : cb.ptr = a

\* C1: a certificate's last copy was dropped and its deleter is about to run,
\* while an rsa_key shared by two copies stays.
C1_Witness ==
    /\ \E cb \in Owners : cb.ty = "certificate" /\ cb.live = 0 /\ cb.use = 0
    /\ \E cb \in Owners : cb.ty = "rsa_key" /\ cb.live = 2

\* The constructors and loaders of the owning wrappers.
ConstructOps ==
    {"certificate", "certificate_raw", "from_certificate",
     "from_trusted_certificate", "rsa_key", "generate"}

\* C2: every live rsa_key or certificate wraps a non-null address: a
\* construction that got a null address raised an error and made no wrapper.
C2_NonNull ==
    /\ \A cb \in Owners : raw(cb) # NULL
    /\ last.op \in ConstructOps /\ last.cause \in {"lib_null", "arg_null"}
         => last.err # "none"

\* C2: a loader got NULL from the decoder and threw, next to a live
\* certificate and a live rsa_key.
C2_Witness ==
    /\ last.op \in {"from_certificate", "from_trusted_certificate"}
    /\ last.cause = "lib_null" /\ last.err # "none"
    /\ LiveOf("certificate") # {} /\ LiveOf("rsa_key") # {}

\* C3: a null pointer given to the take-ownership constructor raises
\* InvalidArgument (and nothing else does), a null result of the library in
\* a default constructor or a loader raises CryptographicError.
C3_NullErrors ==
    /\ last.op = "certificate_raw" /\ last.cause = "arg_null"
         => last.err = "InvalidArgument"
    /\ last.op \in ConstructOps /\ last.cause = "lib_null"
         => last.err = "CryptographicError"
    /\ last.op \in ConstructOps /\ last.err = "InvalidArgument"
         => last.op = "certificate_raw" /\ last.cause = "arg_null"

\* C3: the take-ownership constructor has just been given NULL, next to a
\* live certificate.
C3_Witness ==
    /\ last.op = "certificate_raw" /\ last.cause = "arg_null"
    /\ last.err = "InvalidArgument"
    /\ LiveOf("certificate") # {}

\* C4: == holds exactly for wrappers of one address and != is its negation;
\* copies (the wrappers of one block) are equal, wrappers of different
\* constructions are unequal, default-constructed ones with equal contents
\* included.
C4_Identity ==
    /\ \A a, b \in LiveOf("certificate") :
         /\ certificate_eq(a, b) <=> raw(a) = raw(b)
         /\ certificate_neq(a, b) <=> ~certificate_eq(a, b)
         /\ a = b => certificate_eq(a, b)
         /\ a # b => certificate_neq(a, b)
    /\ \A a, b \in LiveOf("rsa_key") :
         /\ rsa_key_eq(a, b) <=> raw(a) = raw(b)
         /\ rsa_key_neq(a, b) <=> ~rsa_key_eq(a, b)
         /\ a = b => rsa_key_eq(a, b)
         /\ a # b => rsa_key_neq(a, b)
    /\ \A cb \in Owners : cb.live > 0 => CopiesIn(cb, cbs) = 1

\* C4: two default-constructed certificates of equal contents, one of them
\* copied.
C4_Witness ==
    \E a, b \in LiveOf("certificate") :
        /\ a # b /\ a.by = "default" /\ b.by = "default"
        /\ heap[raw(a)] = heap[raw(b)]
        /\ a.live = 2

\* C5: public_key() fails with CryptographicError whenever X509_get_pubkey
\* returns null, with no other error and with no key wrapper made.
C5_PublicKeyError ==
    /\ last.op = "public_key" /\ last.cause = "lib_null"
         => last.err = "CryptographicError"
    /\ \A cb \in Blocks : cb.ty = "pkey" => raw(cb) # NULL

\* The public-key wrappers and what holds a reference of the key at k: each
\* wrapper's control block, and the certificate that caches the key.
Keys == {cb \in Blocks : cb.ty = "pkey"}
KeyBlocks(k) == BagCardinality([cb \in {c \in Keys : c.ptr = k} |-> cbs[cb]])
KeyCaches(k) == Cardinality({a \in Addr : heap[a].pkey = k})

\* C6: the key returned by public_key() has a lifetime of its own: it is
\* allocated as long as a key wrapper or the certificate holds it, whichever
\* goes first, each holder owns one reference, and it is released (once)
\* when the last holder is gone.
C6_KeyLifetime ==
    /\ ub = "none"
    /\ \A cb \in Keys :
         /\ cb.del = "EVP_PKEY_free"
         /\ cb.use = cb.live /\ cb.ran = 0
         /\ heap[cb.ptr].kind = "EVP_PKEY"
    /\ \A k \in Addr :
         heap[k].kind = "EVP_PKEY" =>
             /\ heap[k].refs = KeyBlocks(k) + KeyCaches(k)
             /\ heap[k].refs >= 1
    /\ \A a \in Addr :
         heap[a].pkey # NULL =>
             heap[a].kind = "X509" /\ heap[heap[a].pkey].kind = "EVP_PKEY"

\* C6: a key wrapper is alive, its key allocated, and the certificate the
\* key came from has been released.
C6_Witness ==
    \E cb \in Keys :
        /\ cb.live > 0
        /\ heap[cb.ptr].kind = "EVP_PKEY"
        /\ KeyCaches(cb.ptr) = 0
        /\ \A a \in Addr : heap[a].kind # "X509"

Views == {cb \in Blocks : cb.ty = "name"}

\* C7: the names returned by subject() and issuer() are views: the view of a
\* certificate's subject (issuer) holds the address of that inner name, the
\* same at every call, its deleter releases nothing, and neither making nor
\* dropping views touches the certificate's object, its names or its count
\* of owners: only X509_free of the certificate releases them.
C7_NameViews ==
    /\ ub = "none"
    /\ \A v \in Views :
         /\ NamePart(v.ptr) = v.by
         /\ v.ptr = IF v.by = "subject"
                    THEN X509_get_subject_name(NameOwner(v.ptr))
                    ELSE X509_get_issuer_name(NameOwner(v.ptr))
         /\ v.use = v.live
    /\ \A cb \in Blocks :
         cb.ty = "certificate" =>
             /\ cb.use = cb.live /\ cb.ran = 0
             /\ heap[cb.ptr].kind = "X509"
             /\ heap[cb.ptr].refs = 1
             /\ heap[cb.ptr].names = AllNames
    /\ \A a \in Addr :
         heap[a].kind = "X509" =>
             \E cb \in Blocks : cb.ty = "certificate" /\ cb.ptr = a

\* C7: subject() was called twice on a live certificate: two views of one
\* address.
C7_Witness ==
    \E v \in Views, cb \in LiveOf("certificate") :
        /\ v.by = "subject" /\ v.live = 1 /\ CopiesIn(v, cbs) = 2
        /\ v.ptr = X509_get_subject_name(raw(cb))

\* C8: the plain loader keeps no auxiliary data and the trusted loader keeps
\* what the block carries; the plain writer writes a plain block and the
\* trusted writer a trusted block with the certificate's auxiliary data, on
\* a stream and on a FILE alike. So a trusted block loaded and written by the
\* plain variant comes back with its body and without trust data when
\* reloaded by the trusted variant, and the trusted variant alone keeps it.
C8_TrustErasure ==
    /\ Len(pem.via) >= 1 =>
         pem.cert = IF pem.via[1] = "from_certificate"
                    THEN [body |-> pem.given.body, aux |-> NoAux]
                    ELSE [body |-> pem.given.body, aux |-> pem.given.aux]
    /\ Len(pem.via) >= 2 =>
         pem.out = IF pem.via[2] = "write_certificate"
                   THEN PlainBlock(pem.cert.body)
                   ELSE TrustedBlock(pem.cert.body, pem.cert.aux)
    /\ pem.via = <<"from_certificate", "write_certificate",
                   "from_trusted_certificate">>
         => pem.back = [body |-> pem.given.body, aux |-> NoAux]
    /\ pem.via = <<"from_trusted_certificate", "write_trusted_certificate",
                   "from_trusted_certificate">>
         => pem.back = [body |-> pem.given.body, aux |-> pem.given.aux]

\* C8: a trusted block with trust data went through the plain loader and
\* writer and was reloaded by the trusted loader.
C8_Witness ==
    /\ pem.stage = "reloaded"
    /\ pem.given = TrustedBlock("b1", "t1")
    /\ pem.via = <<"from_certificate", "write_certificate",
                   "from_trusted_certificate">>
    /\ pem.back = [body |-> "b1", aux |-> NoAux]

\* The operations that report a failure of the library as a zero result.
CallOps == {"enable_blinding", "write_certificate", "write_trusted_certificate"}

\* C9: enable_blinding, write_certificate and write_trusted_certificate raise
\* CryptographicError when the library call returns zero and return normally
\* when it returns non-zero (a writer then has written its block); either
\* way the step leaves every wrapper's address and shared ownership as they
\* were and releases nothing.
C9_CallErrors ==
    /\ [](last.op \in CallOps =>
            /\ last.cause \in {"lib_zero", "lib_nonzero"}
            /\ last.cause = "lib_zero" => last.err = "CryptographicError"
            /\ last.cause = "lib_nonzero" => last.err = "none"
            /\ last.err = "none" /\ last.op # "enable_blinding"
                 => last.out # NoBlock)
    /\ [][last'.op \in CallOps /\ last' # last =>
            /\ cbs' = cbs
            /\ ub' = ub
            /\ \A a \in Addr :
                 heap'[a] = [heap[a] EXCEPT !.blind = heap'[a].blind]]_vars

\* C9: RSA_blinding_on has just returned zero on an rsa_key shared by two
\* copies, and enable_blinding threw.
C9_Witness ==
    /\ last.op = "enable_blinding" /\ last.cause = "lib_zero"
    /\ last.err = "CryptographicError"
    /\ \E cb \in LiveOf("rsa_key") : cb.live = 2 /\ cb.use = 2

\* C10: whatever the callers do with the public certificate operations, the
\* take-ownership constructor on an address from raw() of a live certificate
\* included, X509_free never runs twice on one object nor while a live
\* certificate holds the address.
C10_SingleOwner ==
    /\ ub = "none"
    /\ \A cb \in LiveOf("certificate") : heap[raw(cb)].kind = "X509"

\* C10: as long as the take-ownership constructor was given only NULL or
\* objects of the caller's own, never an address a certificate already owns,
\* each allocation has one control block, X509_free never runs twice on one
\* object nor while a live certificate holds the address.
C10_SingleOwnerUnlessLent ==
    lent = {} =>
        /\ ub = "none"
        /\ \A cb \in Blocks :
             cb.ty = "certificate" =>
                 /\ heap[raw(cb)].kind = "X509"
                 /\ cb.use = cb.live /\ cb.ran = 0
                 /\ CopiesIn(cb, cbs) = 1
                 /\ \A other \in Blocks : other.ptr = cb.ptr => other = cb

\* C10: a certificate made by the take-ownership constructor from an object
\* of the caller's own is shared by two copies, next to a default-constructed
\* one; no address was handed over twice.
C10_Witness ==
    /\ lent = {}
    /\ \E cb \in LiveOf("certificate") : cb.by = "raw" /\ cb.live = 2
    /\ \E cb \in LiveOf("certificate") : cb.by = "default"

====
